---- MODULE Spec2Model ----
(***************************************************************************)
(* DHCPv6 client of router7 (internal/dhcp6/dhcp6.go): the exchange        *)
(* engine Client.sendReceive, the orchestration Client.ObtainOrRenew and   *)
(* Client.Release, and the extraction of Config from the Reply.            *)
(*                                                                         *)
(* One client instance talks to an environment that delivers arbitrary     *)
(* datagrams, fails reads and writes, and advances the clock.  A blocking  *)
(* call is modelled by the position pc of the single caller thread:        *)
(*   "idle"  no top-level call is running                                  *)
(*   "recv"  inside the receive loop of sendReceive (lines 197-220)        *)
(*   "ret"   sendReceive has returned to solicit/request/Release           *)
(***************************************************************************)
EXTENDS Integers, Sequences, FiniteSets, Bags, TLC

\* ------------------------------------------------------------- bounds
MaxQueue == 3      \* longest deterministic TransactionID sequence supplied
MaxDiscard == 2    \* datagrams skipped by the receive loop of one exchange
MaxTime  == 3      \* last clock value
MaxIAPD  == 2      \* IA_PD options in one Reply
MaxDNS   == 2      \* addresses in the DNS option of one Reply
MaxXchg  == 4      \* the count of exchanges stops here: MaxXchg or more

\* ReadTimeout, in clock ticks (c.ReadTimeout, set at construction)
ReadTimeout == 1

TIDs      == {1, 2}          \* TransactionID values
T1Values  == {1, 2}          \* IA_PD T1 durations, in clock ticks
PrefixSet == {"p1", "p2"}    \* delegated prefixes
DNSSet    == {"d1", "d2"}    \* name-server addresses

\* time.Time{}: the zero timestamp, before every clock reading
ZeroTime == 0

\* ------------------------------------------------------------- message types
MessageTypeNone            == "None"
MessageTypeSolicit         == "Solicit"
MessageTypeAdvertise       == "Advertise"
MessageTypeRequest         == "Request"
MessageTypeReply           == "Reply"
MessageTypeRelease         == "Release"
MessageTypeRelayForward    == "RelayForward"
MessageTypeRelayReply      == "RelayReply"
MessageTypeLeaseQuery      == "LeaseQuery"
MessageTypeLeaseQueryReply == "LeaseQueryReply"

\* error values; NoErr is Go's nil error
NoErr        == "nil"
ErrTimeout   == "read: i/o timeout"
ErrReadIO    == "read: i/o failure"
ErrWrite     == "write: failure"
ErrNewSolicit == "NewSolicit failed"
ErrNilAdvertise == "ADVERTISE cannot be nil"
ErrBadAdvertise == "cannot build REQUEST from ADVERTISE"

\* ------------------------------------------------------------- messages
\* A *dhcpv6.Message: type, TransactionID, whether it carries the client and
\* server identifiers, its IA_PD options in order, the addresses of its DNS
\* option in order.
Msg(t, tid, ids, iapd, dns) ==
    [MessageType |-> t, TransactionID |-> tid, hasIDs |-> ids,
     iapd |-> iapd, dns |-> dns]

\* the nil *dhcpv6.Message
NilMsg == Msg("nil", 0, FALSE, <<>>, <<>>)

SeqsUpTo(S, n) == UNION {[1..k -> S] : k \in 0..n}

\* the prefixes one IA_PD option may carry
PrefixLists == SeqsUpTo(PrefixSet, 1) \cup {<<"p2", "p1">>}
IAPDs     == [T1 : T1Values, prefixes : PrefixLists]
IAPDLists == SeqsUpTo(IAPDs, MaxIAPD)
DNSLists  == SeqsUpTo(DNSSet, MaxDNS)

\* the options a Reply may carry
ReplyOptions == [iapd : IAPDLists, dns : DNSLists]

\* the two Replies of the protocol-level specification: without options, and
\* with one delegated prefix and one name server
PlainOptions == {[iapd |-> <<>>, dns |-> <<>>],
                 [iapd |-> <<[T1 |-> 1, prefixes |-> <<"p1">>]>>, dns |-> <<"d1">>]}

\* what the servers on the link may send
\* an Advertise lacks the identifiers a Request is built from, or has them
\* and offers no prefix, or has them and offers one
AdvertiseOptions == {[hasIDs |-> FALSE, iapd |-> <<>>],
                     [hasIDs |-> TRUE, iapd |-> <<>>],
                     [hasIDs |-> TRUE, iapd |-> <<[T1 |-> 1, prefixes |-> <<"p1">>]>>]}
Advertises == {Msg(MessageTypeAdvertise, tid, o.hasIDs, o.iapd, <<>>) :
                 tid \in TIDs, o \in AdvertiseOptions}
RepliesOf(options) == {Msg(MessageTypeReply, tid, TRUE, o.iapd, o.dns) :
                         tid \in TIDs, o \in options}

\* a datagram on the wire: bytes that decode to a message, or bytes that do not
Garbage   == [decodable |-> FALSE, msg |-> NilMsg]
Datagrams == {Garbage} \cup {[decodable |-> TRUE, msg |-> m] :
                               m \in Advertises \cup RepliesOf(PlainOptions)}

\* dhcpv6.MessageFromBytes
MessageFromBytes(d) ==
    IF d.decodable THEN [msg |-> d.msg, err |-> NoErr]
                   ELSE [msg |-> NilMsg, err |-> "decode"]

\* what the log of skipped datagrams keeps of a datagram
Header(d) == [decodable |-> d.decodable,
              TransactionID |-> d.msg.TransactionID,
              MessageType |-> d.msg.MessageType]

\* Config{}: the zero Config
ZeroConfig == [RenewAfter |-> ZeroTime, Prefixes |-> <<>>, DNS |-> <<>>]

\* ------------------------------------------------------------- state
VARIABLES
    c,             \* the Client: advertise, cfg, err, transactionIDs
    pc,            \* position of the caller thread: "idle", "recv", "ret"
    call,          \* the top-level call running or last run
    op,            \* the caller of the current exchange: "solicit", "request", "release"
    packet,        \* sendReceive: the packet being exchanged
    expectedType,  \* sendReceive: expectedType after inference
    ret,           \* what sendReceive returned: (msg, err)
    out,           \* what the last top-level call returned
    now,           \* the clock (time.Now, c.timeNow)
    readDeadline,  \* the read deadline set on c.Conn
    fromQueue,     \* history: packet got its TransactionID from the queue
    discarded,     \* history: the bag of headers of the datagrams this exchange skipped
    reads,         \* history: number of ReadFrom calls in this exchange
    wire,          \* history: types of the packets written during this top-level call
    used,          \* history: the TransactionIDs taken from the queue, in order
    xchg,          \* history: number of sendReceive calls made, up to MaxXchg
    nows,          \* history: the clock readings of this call's extraction
    extracted,     \* history: the Reply this call extracted c.cfg from
    cfg0,          \* history: c.cfg when this top-level call began
    ids0,          \* history: ClientConfig.TransactionIDs as supplied
    inst,          \* two more Clients on one channel: the exchange of each
    chan           \* the datagrams in flight on the channel the two share

solo == <<c, pc, call, op, packet, expectedType, ret, out, now, readDeadline,
          fromQueue, discarded, reads, wire, used, xchg, nows, extracted, cfg0, ids0>>

vars == <<solo, inst, chan>>

\* the Clients that share a channel
Instances == {1, 2}

\* the exchange of one of them: the frame of its sendReceive.  xid is the
\* TransactionID its packets carry; to is the Client the message returned was
\* sent to, skipped whether a message sent to the other Client was skipped.
IdleInstance(x) ==
    [pc |-> "idle", xid |-> x, packet |-> NilMsg, expectedType |-> MessageTypeNone,
     ret |-> [msg |-> NilMsg, err |-> NoErr, to |-> 0], skipped |-> FALSE]

NoRet == [msg |-> NilMsg, err |-> NoErr]
NoOut == [ok |-> FALSE, release |-> NilMsg, reply |-> NilMsg, err |-> NoErr]

\* NewClient: the fields of the Client this model follows
NewClient(ids) ==
    [advertise |-> NilMsg, cfg |-> ZeroConfig, err |-> NoErr, transactionIDs |-> ids]

\* the sequences a caller may supply as ClientConfig.TransactionIDs.  The
\* program treats every ID alike, so among the sequences that differ only by
\* a renaming of the IDs the one whose first entry is 1 is kept.
SuppliedIDs == {q \in SeqsUpTo(TIDs, MaxQueue) : q = <<>> \/ q[1] = 1}

InitClient ==
    /\ ids0 \in SuppliedIDs
    /\ c = NewClient(ids0)
    /\ pc = "idle"
    /\ call = "none"
    /\ op = "none"
    /\ packet = NilMsg
    /\ expectedType = MessageTypeNone
    /\ ret = NoRet
    /\ out = NoOut
    /\ now = 1
    /\ readDeadline = 0
    /\ fromQueue = FALSE
    /\ discarded = EmptyBag
    /\ reads = 0
    /\ wire = <<>>
    /\ used = <<>>
    /\ xchg = 0
    /\ nows = <<>>
    /\ extracted = NilMsg
    /\ cfg0 = ZeroConfig

\* one Client on a channel of its own
Init ==
    /\ InitClient
    /\ inst = [i \in Instances |-> IdleInstance(i)]
    /\ chan = {}

\* ------------------------------------------------------------- sendReceive
\* InferExpectedType with one more row, Release -> Reply
InferReleaseReply(ptype, expected) ==
    IF expected # MessageTypeNone THEN expected
    ELSE IF ptype = MessageTypeSolicit THEN MessageTypeAdvertise
    ELSE IF ptype = MessageTypeRequest THEN MessageTypeReply
    ELSE IF ptype = MessageTypeRelease THEN MessageTypeReply
    ELSE IF ptype = MessageTypeRelayForward THEN MessageTypeRelayReply
    ELSE IF ptype = MessageTypeLeaseQuery THEN MessageTypeLeaseQueryReply
    ELSE MessageTypeNone

\* lines 173-184: the expected type inferred from the packet being sent
InferExpectedType(ptype, expected) ==
    IF expected # MessageTypeNone THEN expected
    ELSE IF ptype = MessageTypeSolicit THEN MessageTypeAdvertise
    ELSE IF ptype = MessageTypeRequest THEN MessageTypeReply
    ELSE IF ptype = MessageTypeRelayForward THEN MessageTypeRelayReply
    ELSE IF ptype = MessageTypeLeaseQuery THEN MessageTypeLeaseQueryReply
    ELSE MessageTypeNone

\* LoopBody without the TransactionID comparison of lines 209-213
LoopBodyNoXID(d, p, expected) ==
    LET r == MessageFromBytes(d) IN
    IF r.err # NoErr THEN [brk |-> FALSE, adv |-> r.msg]
    ELSE IF expected = MessageTypeNone THEN [brk |-> TRUE, adv |-> r.msg]
    ELSE IF r.msg.MessageType = expected THEN [brk |-> TRUE, adv |-> r.msg]
    ELSE [brk |-> FALSE, adv |-> r.msg]

\* LoopBody without the type comparison of line 217: any message of the
\* transaction is taken
LoopBodyAnyType(d, p, expected) ==
    LET r == MessageFromBytes(d) IN
    IF r.err # NoErr THEN [brk |-> FALSE, adv |-> r.msg]
    ELSE IF p.TransactionID # r.msg.TransactionID THEN [brk |-> FALSE, adv |-> r.msg]
    ELSE [brk |-> TRUE, adv |-> r.msg]

\* LoopBody leaving the loop on a datagram that does not decode (break for
\* continue at line 207)
LoopBodyBreakOnGarbage(d, p, expected) ==
    LET r == MessageFromBytes(d) IN
    IF r.err # NoErr THEN [brk |-> TRUE, adv |-> r.msg]
    ELSE IF p.TransactionID # r.msg.TransactionID THEN [brk |-> FALSE, adv |-> r.msg]
    ELSE IF expected = MessageTypeNone THEN [brk |-> TRUE, adv |-> r.msg]
    ELSE IF r.msg.MessageType = expected THEN [brk |-> TRUE, adv |-> r.msg]
    ELSE [brk |-> FALSE, adv |-> r.msg]

\* LoopBody with the type looked at first: a message of the expected type is
\* taken before its TransactionID is compared
LoopBodyTypeFirst(d, p, expected) ==
    LET r == MessageFromBytes(d) IN
    IF r.err # NoErr THEN [brk |-> FALSE, adv |-> r.msg]
    ELSE IF expected # MessageTypeNone /\ r.msg.MessageType = expected
         THEN [brk |-> TRUE, adv |-> r.msg]
    ELSE IF p.TransactionID # r.msg.TransactionID THEN [brk |-> FALSE, adv |-> r.msg]
    ELSE IF expected = MessageTypeNone THEN [brk |-> TRUE, adv |-> r.msg]
    ELSE [brk |-> FALSE, adv |-> r.msg]

\* lines 203-219: one iteration of the receive loop on datagram d.
\* brk: the loop is left and adv is returned; otherwise the loop continues.
LoopBody(d, p, expected) ==
    LET r == MessageFromBytes(d) IN
    IF r.err # NoErr THEN [brk |-> FALSE, adv |-> r.msg]
    ELSE IF p.TransactionID # r.msg.TransactionID THEN [brk |-> FALSE, adv |-> r.msg]
    ELSE IF expected = MessageTypeNone THEN [brk |-> TRUE, adv |-> r.msg]
    ELSE IF r.msg.MessageType = expected THEN [brk |-> TRUE, adv |-> r.msg]
    ELSE [brk |-> FALSE, adv |-> r.msg]

\* StampTransactionID taking the back of the queue for the front
StampFromBack(m, q) ==
    IF Len(q) > 0
    THEN [msg |-> [m EXCEPT !.TransactionID = q[Len(q)]],
          queue |-> SubSeq(q, 1, Len(q) - 1), fromQueue |-> TRUE]
    ELSE [msg |-> m, queue |-> q, fromQueue |-> FALSE]

\* StampTransactionID without line 234: the front stays in the queue
StampNoPop(m, q) ==
    IF Len(q) > 0
    THEN [msg |-> [m EXCEPT !.TransactionID = q[1]], queue |-> q, fromQueue |-> TRUE]
    ELSE [msg |-> m, queue |-> q, fromQueue |-> FALSE]

\* lines 232-236, 251-255, 298-302: stamp the front of the deterministic queue
\* on message m, if there is one, and drop it from the queue
StampTransactionID(m, q) ==
    IF Len(q) > 0
    THEN [msg |-> [m EXCEPT !.TransactionID = q[1]], queue |-> Tail(q), fromQueue |-> TRUE]
    ELSE [msg |-> m, queue |-> q, fromQueue |-> FALSE]

\* Send with the error of WriteTo dropped: the receive loop is entered after a
\* write that failed
SendIgnoresWriteError(p, expected, fromQ, wok, w) ==
    /\ packet' = p
    /\ fromQueue' = fromQ
    /\ used' = IF fromQ THEN Append(used, p.TransactionID) ELSE used
    /\ xchg' = IF xchg < MaxXchg THEN xchg + 1 ELSE xchg
    /\ discarded' = EmptyBag
    /\ reads' = 0
    /\ IF p = NilMsg
       THEN /\ ret' = [msg |-> NilMsg, err |-> "packet to send cannot be nil"]
            /\ expectedType' = expected
            /\ wire' = w
            /\ pc' = "ret"
            /\ UNCHANGED readDeadline
       ELSE /\ expectedType' = InferExpectedType(p.MessageType, expected)
            /\ wire' = IF wok THEN Append(w, p.MessageType) ELSE w
            /\ readDeadline' = now + ReadTimeout
            /\ ret' = NoRet
            /\ pc' = "recv"

\* lines 169-196: sendReceive up to the receive loop. wok: the write succeeds.
\* w: the types of the packets written so far in this top-level call.
Send(p, expected, fromQ, wok, w) ==
    /\ packet' = p
    /\ fromQueue' = fromQ
    /\ used' = IF fromQ THEN Append(used, p.TransactionID) ELSE used
    /\ xchg' = IF xchg < MaxXchg THEN xchg + 1 ELSE xchg
    /\ discarded' = EmptyBag
    /\ reads' = 0
    /\ IF p = NilMsg
       THEN /\ ret' = [msg |-> NilMsg, err |-> "packet to send cannot be nil"]
            /\ expectedType' = expected
            /\ wire' = w
            /\ pc' = "ret"
            /\ UNCHANGED readDeadline
       ELSE /\ expectedType' = InferExpectedType(p.MessageType, expected)
            /\ IF wok
               THEN /\ wire' = Append(w, p.MessageType)
                    /\ readDeadline' = now + ReadTimeout
                    /\ ret' = NoRet
                    /\ pc' = "recv"
               ELSE /\ wire' = w
                    /\ ret' = [msg |-> NilMsg, err |-> ErrWrite]
                    /\ pc' = "ret"
                    /\ UNCHANGED readDeadline

\* lines 197-220: ReadFrom delivers datagram d before the deadline.  A datagram
\* that does not end the loop leaves no trace in the program's state: adv is
\* assigned again at line 203 before it is read.
ReadDatagram(d) ==
    /\ pc = "recv"
    /\ now < readDeadline
    /\ reads' = reads + 1
    /\ LET b == LoopBody(d, packet, expectedType) IN
       IF b.brk
       THEN /\ ret' = [msg |-> b.adv, err |-> NoErr]
            /\ pc' = "ret"
            /\ UNCHANGED discarded
       ELSE /\ BagCardinality(discarded) < MaxDiscard
            /\ discarded' = discarded (+) SetToBag({Header(d)})
            /\ UNCHANGED <<ret, pc>>
    /\ UNCHANGED <<c, call, op, packet, expectedType, out, now, readDeadline,
                   fromQueue, wire, used, xchg, nows, extracted, cfg0, ids0, inst, chan>>

\* ReadError with the error of ReadFrom ignored: the loop goes on
ReadErrorIgnored(e) ==
    /\ pc = "recv"
    /\ e = ErrTimeout => now >= readDeadline
    /\ reads < MaxDiscard + 2
    /\ reads' = reads + 1
    /\ UNCHANGED <<c, pc, call, op, packet, expectedType, ret, out, now, readDeadline,
                   fromQueue, discarded, wire, used, xchg, nows, extracted, cfg0, ids0, inst, chan>>

\* ReadError retrying on a timeout: the deadline is set again and the loop
\* goes on
ReadErrorRenewsDeadline(e) ==
    /\ pc = "recv"
    /\ e = ErrTimeout => now >= readDeadline
    /\ reads' = reads + 1
    /\ IF e = ErrTimeout
       THEN /\ now + ReadTimeout <= MaxTime
            /\ readDeadline' = now + ReadTimeout
            /\ UNCHANGED <<ret, pc>>
       ELSE /\ ret' = [msg |-> NilMsg, err |-> e]
            /\ pc' = "ret"
            /\ UNCHANGED readDeadline
    /\ UNCHANGED <<c, call, op, packet, expectedType, out, now,
                   fromQueue, discarded, wire, used, xchg, nows, extracted, cfg0, ids0, inst, chan>>

\* ReadError sending the packet again on a timeout, with a new deadline
ReadErrorResends(e) ==
    /\ pc = "recv"
    /\ e = ErrTimeout => now >= readDeadline
    /\ reads' = reads + 1
    /\ IF e = ErrTimeout /\ now + ReadTimeout <= MaxTime /\ Len(wire) < 3
       THEN /\ wire' = Append(wire, packet.MessageType)
            /\ readDeadline' = now + ReadTimeout
            /\ UNCHANGED <<ret, pc>>
       ELSE /\ ret' = [msg |-> NilMsg, err |-> e]
            /\ pc' = "ret"
            /\ UNCHANGED <<wire, readDeadline>>
    /\ UNCHANGED <<c, call, op, packet, expectedType, out, now,
                   fromQueue, discarded, used, xchg, nows, extracted, cfg0, ids0, inst, chan>>

\* lines 199-202: ReadFrom fails: with a timeout once the deadline has passed,
\* with another I/O error at any time
ReadError(e) ==
    /\ pc = "recv"
    /\ e = ErrTimeout => now >= readDeadline
    /\ reads' = reads + 1
    /\ ret' = [msg |-> NilMsg, err |-> e]
    /\ pc' = "ret"
    /\ UNCHANGED <<c, call, op, packet, expectedType, out, now, readDeadline,
                   fromQueue, discarded, wire, used, xchg, nows, extracted, cfg0, ids0, inst, chan>>

\* ------------------------------------------------------------- message codec
\* dhcpv6.NewSolicit with a random TransactionID rnd, and the IA_PD option
\* added at line 237
NewSolicit(rnd) ==
    Msg(MessageTypeSolicit, rnd, FALSE, <<[T1 |-> 0, prefixes |-> <<>>]>>, <<>>)

\* dhcpv6.NewRequestFromAdvertise with a random TransactionID rnd
NewRequestFromAdvertise(a, rnd) ==
    IF a = NilMsg THEN [msg |-> NilMsg, err |-> ErrNilAdvertise]
    ELSE IF a.MessageType # MessageTypeAdvertise \/ ~a.hasIDs
         THEN [msg |-> NilMsg, err |-> ErrBadAdvertise]
    ELSE [msg |-> Msg(MessageTypeRequest, rnd, TRUE, <<>>, <<>>), err |-> NoErr]

\* advertise.Options.OneIAPD(): the first IA_PD option, as a list of 0 or 1
OneIAPD(m) == IF Len(m.iapd) > 0 THEN <<m.iapd[1]>> ELSE <<>>

\* ------------------------------------------------------------- extraction
\* ExtractIAPD without the t1.Before test of line 277: the first IA_PD decides
RECURSIVE ExtractIAPDFirstWins(_, _, _)
ExtractIAPDFirstWins(iapds, ts, newCfg) ==
    IF iapds = <<>> THEN newCfg
    ELSE LET iapd == Head(iapds)
             t1   == Head(ts) + iapd.T1
             cfg1 == IF newCfg.RenewAfter = ZeroTime
                     THEN [newCfg EXCEPT !.RenewAfter = t1]
                     ELSE newCfg
             cfg2 == [cfg1 EXCEPT !.Prefixes = @ \o iapd.prefixes]
         IN ExtractIAPDFirstWins(Tail(iapds), Tail(ts), cfg2)

\* lines 275-283: the loop over reply.Options.IAPD().  ts[i] is what
\* c.timeNow() returns in the i-th iteration.
RECURSIVE ExtractIAPD(_, _, _)
ExtractIAPD(iapds, ts, newCfg) ==
    IF iapds = <<>> THEN newCfg
    ELSE LET iapd == Head(iapds)
             t1   == Head(ts) + iapd.T1
             cfg1 == IF t1 < newCfg.RenewAfter \/ newCfg.RenewAfter = ZeroTime
                     THEN [newCfg EXCEPT !.RenewAfter = t1]
                     ELSE newCfg
             cfg2 == [cfg1 EXCEPT !.Prefixes = @ \o iapd.prefixes]
         IN ExtractIAPD(Tail(iapds), Tail(ts), cfg2)

\* lines 284-286: the loop over reply.Options.DNS()
RECURSIVE ExtractDNS(_, _)
ExtractDNS(dns, newCfg) ==
    IF dns = <<>> THEN newCfg
    ELSE ExtractDNS(Tail(dns), [newCfg EXCEPT !.DNS = Append(@, Head(dns))])

\* Extract appending to the Config held, for a fresh newCfg (line 274)
ExtractOntoHeld(reply, ts) == ExtractDNS(reply.dns, ExtractIAPD(reply.iapd, ts, c.cfg))

\* lines 274-286: newCfg as built from the Reply
Extract(reply, ts) == ExtractDNS(reply.dns, ExtractIAPD(reply.iapd, ts, ZeroConfig))

\* the clock read n times from time t on: it never runs backwards
Readings(n, t) ==
    {ts \in [1..n -> t..MaxTime] : \A i \in 1..(n - 1) : ts[i] <= ts[i + 1]}

\* ------------------------------------------------------------- top-level calls
\* the call returns to its caller with the values o: the frame of sendReceive
\* is gone
Return(o) ==
    /\ out' = o
    /\ pc' = "idle"
    /\ packet' = NilMsg
    /\ expectedType' = MessageTypeNone
    /\ ret' = NoRet
    /\ fromQueue' = FALSE
    /\ discarded' = EmptyBag

\* the call makes no exchange: no sendReceive frame exists, nothing is written
\* or read
NoExchange ==
    /\ reads' = 0
    /\ wire' = <<>>
    /\ UNCHANGED <<readDeadline, used, xchg>>

\* ObtainOrRenew returns true (lines 265, 272, 288)
ObtainOut == [ok |-> TRUE, release |-> NilMsg, reply |-> NilMsg, err |-> NoErr]

\* ObtainOrRenew without line 261: the error of an earlier call stays latched
ObtainOrRenewKeepErr(solOK, rnd, wok) ==
    /\ pc = "idle"
    /\ now + 2 * ReadTimeout <= MaxTime
    /\ call' = "ObtainOrRenew"
    /\ op' = "solicit"
    /\ nows' = <<>>
    /\ extracted' = NilMsg
    /\ cfg0' = c.cfg
    /\ IF ~solOK
       THEN /\ c' = [c EXCEPT !.err = ErrNewSolicit]
            /\ Return(ObtainOut)
            /\ NoExchange
       ELSE LET s == StampTransactionID(NewSolicit(rnd), c.transactionIDs) IN
            /\ c' = [c EXCEPT !.transactionIDs = s.queue]
            /\ Send(s.msg, MessageTypeNone, s.fromQueue, wok, <<>>)
            /\ out' = NoOut
    /\ UNCHANGED <<now, ids0, inst, chan>>

\* lines 260-262, solicit (224-238) and sendReceive up to the receive loop.
\* solOK: NewSolicit succeeds; rnd: its random TransactionID; wok: the write
\* succeeds.
ObtainOrRenew(solOK, rnd, wok) ==
    /\ pc = "idle"
    /\ now + 2 * ReadTimeout <= MaxTime
    /\ call' = "ObtainOrRenew"
    /\ op' = "solicit"
    /\ nows' = <<>>
    /\ extracted' = NilMsg
    /\ cfg0' = c.cfg
    /\ IF ~solOK
       THEN /\ c' = [c EXCEPT !.err = ErrNewSolicit]
            /\ Return(ObtainOut)
            /\ NoExchange
       ELSE LET s == StampTransactionID(NewSolicit(rnd), c.transactionIDs) IN
            /\ c' = [c EXCEPT !.err = NoErr, !.transactionIDs = s.queue]
            /\ Send(s.msg, MessageTypeNone, s.fromQueue, wok, <<>>)
            /\ out' = NoOut
    /\ UNCHANGED <<now, ids0, inst, chan>>

\* AfterSolicit going on to the Request with the Advertise retained from an
\* earlier call when the Solicit exchange failed
AfterSolicitStaleAdvertise(rnd, wok) ==
    /\ pc = "ret"
    /\ op = "solicit"
    /\ LET adv == IF ret.err # NoErr THEN c.advertise ELSE ret.msg
           r   == NewRequestFromAdvertise(adv, rnd)
       IN IF r.err # NoErr
          THEN /\ c' = [c EXCEPT !.advertise = adv,
                                 !.err = IF ret.err # NoErr THEN ret.err ELSE r.err]
               /\ Return(ObtainOut)
               /\ UNCHANGED <<op, readDeadline, reads, wire, used, xchg>>
          ELSE LET req == [r.msg EXCEPT !.iapd = @ \o OneIAPD(adv)]
                   s   == StampTransactionID(req, c.transactionIDs)
               IN /\ c' = [c EXCEPT !.advertise = adv, !.transactionIDs = s.queue]
                  /\ op' = "request"
                  /\ Send(s.msg, MessageTypeNone, s.fromQueue, wok, wire)
                  /\ UNCHANGED out
    /\ UNCHANGED <<call, now, nows, extracted, cfg0, ids0, inst, chan>>

\* AfterSolicit without line 268: the Advertise is not retained
AfterSolicitNoStore(rnd, wok) ==
    /\ pc = "ret"
    /\ op = "solicit"
    /\ IF ret.err # NoErr
       THEN /\ c' = [c EXCEPT !.err = ret.err]
            /\ Return(ObtainOut)
            /\ UNCHANGED <<op, readDeadline, reads, wire, used, xchg>>
       ELSE LET r == NewRequestFromAdvertise(ret.msg, rnd) IN
            IF r.err # NoErr
            THEN /\ c' = [c EXCEPT !.err = r.err]
                 /\ Return(ObtainOut)
                 /\ UNCHANGED <<op, readDeadline, reads, wire, used, xchg>>
            ELSE LET req == [r.msg EXCEPT !.iapd = @ \o OneIAPD(ret.msg)]
                     s   == StampTransactionID(req, c.transactionIDs)
                 IN /\ c' = [c EXCEPT !.transactionIDs = s.queue]
                    /\ op' = "request"
                    /\ Send(s.msg, MessageTypeNone, s.fromQueue, wok, wire)
                    /\ UNCHANGED out
    /\ UNCHANGED <<call, now, nows, extracted, cfg0, ids0, inst, chan>>

\* lines 263-269, request (242-256) and sendReceive up to the receive loop:
\* what ObtainOrRenew does once the Solicit exchange has returned
AfterSolicit(rnd, wok) ==
    /\ pc = "ret"
    /\ op = "solicit"
    /\ IF ret.err # NoErr
       THEN /\ c' = [c EXCEPT !.err = ret.err]
            /\ Return(ObtainOut)
            /\ UNCHANGED <<op, readDeadline, reads, wire, used, xchg>>
       ELSE LET r == NewRequestFromAdvertise(ret.msg, rnd) IN
            IF r.err # NoErr
            THEN /\ c' = [c EXCEPT !.advertise = ret.msg, !.err = r.err]
                 /\ Return(ObtainOut)
                 /\ UNCHANGED <<op, readDeadline, reads, wire, used, xchg>>
            ELSE LET req == [r.msg EXCEPT !.iapd = @ \o OneIAPD(ret.msg)]
                     s   == StampTransactionID(req, c.transactionIDs)
                 IN /\ c' = [c EXCEPT !.advertise = ret.msg, !.transactionIDs = s.queue]
                    /\ op' = "request"
                    /\ Send(s.msg, MessageTypeNone, s.fromQueue, wok, wire)
                    /\ UNCHANGED out
    /\ UNCHANGED <<call, now, nows, extracted, cfg0, ids0, inst, chan>>

\* AfterRequest with c.cfg assigned from newCfg before the error is looked at
AfterRequestEarlyStore(ts) ==
    /\ pc = "ret"
    /\ op = "request"
    /\ IF ret.err # NoErr
       THEN /\ c' = [c EXCEPT !.err = ret.err, !.cfg = ZeroConfig]
            /\ ts = <<>>
            /\ UNCHANGED <<now, nows, extracted>>
       ELSE /\ ts \in Readings(Len(ret.msg.iapd), now)
            /\ c' = [c EXCEPT !.cfg = Extract(ret.msg, ts)]
            /\ nows' = ts
            /\ extracted' = ret.msg
            /\ now' = IF ts = <<>> THEN now ELSE ts[Len(ts)]
    /\ Return(ObtainOut)
    /\ UNCHANGED <<call, op, readDeadline, reads, wire, used, xchg, cfg0, ids0, inst, chan>>

\* lines 270-288: what ObtainOrRenew does once the Request exchange has
\* returned.  ts: the clock readings of the extraction loop.
AfterRequest(ts) ==
    /\ pc = "ret"
    /\ op = "request"
    /\ IF ret.err # NoErr
       THEN /\ c' = [c EXCEPT !.err = ret.err]
            /\ ts = <<>>
            /\ UNCHANGED <<now, nows, extracted>>
       ELSE /\ ts \in Readings(Len(ret.msg.iapd), now)
            /\ c' = [c EXCEPT !.cfg = Extract(ret.msg, ts)]
            /\ nows' = ts
            /\ extracted' = ret.msg
            /\ now' = IF ts = <<>> THEN now ELSE ts[Len(ts)]
    /\ Return(ObtainOut)
    /\ UNCHANGED <<call, op, readDeadline, reads, wire, used, xchg, cfg0, ids0, inst, chan>>

\* Release without the early return of lines 293-295
ReleaseNoCheck(rnd, wok) ==
    /\ pc = "idle"
    /\ now + ReadTimeout <= MaxTime
    /\ call' = "Release"
    /\ op' = "release"
    /\ nows' = <<>>
    /\ extracted' = NilMsg
    /\ cfg0' = c.cfg
    /\ LET r   == NewRequestFromAdvertise(c.advertise, rnd)
           rel == [r.msg EXCEPT !.MessageType = MessageTypeRelease]
           s   == StampTransactionID(rel, c.transactionIDs)
       IN /\ c' = [c EXCEPT !.transactionIDs = s.queue]
          /\ Send(s.msg, MessageTypeNone, s.fromQueue, wok, <<>>)
          /\ out' = NoOut
    /\ UNCHANGED <<now, ids0, inst, chan>>

\* Release taking the front of the queue before it looks at the error of
\* NewRequestFromAdvertise
ReleasePopFirst(rnd, wok) ==
    /\ pc = "idle"
    /\ now + ReadTimeout <= MaxTime
    /\ call' = "Release"
    /\ op' = "release"
    /\ nows' = <<>>
    /\ extracted' = NilMsg
    /\ cfg0' = c.cfg
    /\ LET r == NewRequestFromAdvertise(c.advertise, rnd)
           s == StampTransactionID([r.msg EXCEPT !.MessageType = MessageTypeRelease],
                                   c.transactionIDs)
       IN /\ c' = [c EXCEPT !.transactionIDs = s.queue]
          /\ IF r.err # NoErr
             THEN /\ Return([ok |-> FALSE, release |-> NilMsg, reply |-> NilMsg, err |-> r.err])
                  /\ NoExchange
             ELSE /\ Send(s.msg, MessageTypeNone, s.fromQueue, wok, <<>>)
                  /\ out' = NoOut
    /\ UNCHANGED <<now, ids0, inst, chan>>

\* lines 291-303 and sendReceive up to the receive loop
Release(rnd, wok) ==
    /\ pc = "idle"
    /\ now + ReadTimeout <= MaxTime
    /\ call' = "Release"
    /\ op' = "release"
    /\ nows' = <<>>
    /\ extracted' = NilMsg
    /\ cfg0' = c.cfg
    /\ LET r == NewRequestFromAdvertise(c.advertise, rnd) IN
       IF r.err # NoErr
       THEN /\ Return([ok |-> FALSE, release |-> NilMsg, reply |-> NilMsg, err |-> r.err])
            /\ NoExchange
            /\ UNCHANGED c
       ELSE LET rel == [r.msg EXCEPT !.MessageType = MessageTypeRelease]
                s   == StampTransactionID(rel, c.transactionIDs)
            IN /\ c' = [c EXCEPT !.transactionIDs = s.queue]
               /\ Send(s.msg, MessageTypeNone, s.fromQueue, wok, <<>>)
               /\ out' = NoOut
    /\ UNCHANGED <<now, ids0, inst, chan>>

\* AfterRelease latching the error of the exchange in c.err, as ObtainOrRenew
\* does
AfterReleaseLatch ==
    /\ pc = "ret"
    /\ op = "release"
    /\ c' = [c EXCEPT !.err = ret.err]
    /\ Return([ok |-> FALSE, release |-> packet, reply |-> ret.msg, err |-> ret.err])
    /\ UNCHANGED <<call, op, now, readDeadline, reads, wire, used, xchg, nows,
                   extracted, cfg0, ids0, inst, chan>>

\* line 304: Release returns what sendReceive returned
AfterRelease ==
    /\ pc = "ret"
    /\ op = "release"
    /\ Return([ok |-> FALSE, release |-> packet, reply |-> ret.msg, err |-> ret.err])
    /\ UNCHANGED <<c, call, op, now, readDeadline, reads, wire, used, xchg, nows,
                   extracted, cfg0, ids0, inst, chan>>

\* the clock advances while the caller thread is idle or blocked in ReadFrom.
\* Between the return of sendReceive and what its caller does next the thread
\* runs, and only the clock readings of the extraction loop tell the time.
Tick ==
    /\ now < MaxTime
    /\ pc # "ret"
    /\ now' = now + 1
    /\ UNCHANGED <<c, pc, call, op, packet, expectedType, ret, out, readDeadline,
                   fromQueue, discarded, reads, wire, used, xchg, nows, extracted, cfg0, ids0, inst, chan>>

Next ==
    \/ \E solOK \in BOOLEAN, rnd \in TIDs, wok \in BOOLEAN : ObtainOrRenew(solOK, rnd, wok)
    \/ \E rnd \in TIDs, wok \in BOOLEAN : AfterSolicit(rnd, wok)
    \/ \E ts \in SeqsUpTo(1..MaxTime, MaxIAPD) : AfterRequest(ts)
    \/ \E rnd \in TIDs, wok \in BOOLEAN : Release(rnd, wok)
    \/ AfterRelease
    \/ \E d \in Datagrams : ReadDatagram(d)
    \/ \E e \in {ErrTimeout, ErrReadIO} : ReadError(e)
    \/ Tick

Spec == Init /\ [][Next]_vars

\* ------------------------------------------------------------- extraction alone
\* The extraction of lines 274-288 on every Reply within the bounds: the
\* Request exchange of an ObtainOrRenew has just returned Reply r for
\* TransactionID tid, while the client holds Config held.
HeldConfigs == {ZeroConfig, [RenewAfter |-> 2, Prefixes |-> <<"p2">>, DNS |-> <<"d2", "d1">>]}

InitExtract ==
    \E tid \in TIDs, o \in ReplyOptions, held \in HeldConfigs :
        /\ ids0 = <<>>
        /\ c = [advertise |-> Msg(MessageTypeAdvertise, tid, TRUE, <<>>, <<>>),
                cfg |-> held, err |-> NoErr, transactionIDs |-> <<>>]
        /\ pc = "ret"
        /\ call = "ObtainOrRenew"
        /\ op = "request"
        /\ packet = Msg(MessageTypeRequest, tid, TRUE, <<>>, <<>>)
        /\ expectedType = MessageTypeReply
        /\ ret = [msg |-> Msg(MessageTypeReply, tid, TRUE, o.iapd, o.dns), err |-> NoErr]
        /\ out = NoOut
        /\ now \in 1..(MaxTime - 2 * ReadTimeout)
        /\ readDeadline = now + ReadTimeout
        /\ fromQueue = FALSE
        /\ discarded = EmptyBag
        /\ reads = 1
        /\ wire = <<MessageTypeSolicit, MessageTypeRequest>>
        /\ used = <<>>
        /\ xchg = IF held = ZeroConfig THEN 2 ELSE MaxXchg
        /\ nows = <<>>
        /\ extracted = NilMsg
        /\ cfg0 = held
        /\ inst = [i \in Instances |-> IdleInstance(i)]
        /\ chan = {}

NextExtract ==
    \/ \E ts \in SeqsUpTo(1..MaxTime, MaxIAPD) : AfterRequest(ts)
    \/ Tick

SpecExtract == InitExtract /\ [][NextExtract]_vars

\* ------------------------------------------------------------- sendReceive alone
\* sendReceive called on its own, with every packet and expected type its
\* signature admits, and every type of message on the wire.
OutboundTypes == {MessageTypeSolicit, MessageTypeRequest, MessageTypeRelease,
                  MessageTypeRelayForward, MessageTypeLeaseQuery}
Outbound == {NilMsg} \cup {Msg(t, tid, TRUE, <<>>, <<>>) : t \in OutboundTypes, tid \in TIDs}
ExpectedTypes == {MessageTypeNone, MessageTypeReply}
InboundTypes == {MessageTypeAdvertise, MessageTypeReply, MessageTypeRelayReply,
                 MessageTypeLeaseQueryReply}
ExchangeDatagrams ==
    {Garbage} \cup {[decodable |-> TRUE, msg |-> Msg(t, tid, TRUE, <<>>, <<>>)] :
                      t \in InboundTypes, tid \in TIDs}

\* lines 169-196: sendReceive(p, expected) is called
Exchange(p, expected, wok) ==
    /\ pc = "idle"
    /\ now + ReadTimeout <= MaxTime
    /\ call' = IF expected = MessageTypeNone THEN "sendReceive(None)"
                                             ELSE "sendReceive(expected)"
    /\ op' = "exchange"
    /\ Send(p, expected, FALSE, wok, <<>>)
    /\ out' = NoOut
    /\ UNCHANGED <<c, now, nows, extracted, cfg0, ids0, inst, chan>>

\* lines 171, 189, 201, 221: sendReceive returns to its caller
AfterExchange ==
    /\ pc = "ret"
    /\ op = "exchange"
    /\ Return([ok |-> FALSE, release |-> packet, reply |-> ret.msg, err |-> ret.err])
    /\ UNCHANGED <<c, call, op, now, readDeadline, reads, wire, used, xchg, nows,
                   extracted, cfg0, ids0, inst, chan>>

InitExchange == Init /\ ids0 = <<>>

NextExchange ==
    \/ \E p \in Outbound, expected \in ExpectedTypes, wok \in BOOLEAN : Exchange(p, expected, wok)
    \/ AfterExchange
    \/ \E d \in ExchangeDatagrams : ReadDatagram(d)
    \/ \E e \in {ErrTimeout, ErrReadIO} : ReadError(e)
    \/ Tick

SpecExchange == InitExchange /\ [][NextExchange]_vars

\* The clock runs, and a ReadFrom that is blocked when the deadline passes
\* returns the timeout.
SpecExchangeFair ==
    SpecExchange /\ WF_vars(Tick) /\ WF_vars(ReadError(ErrTimeout))

\* ------------------------------------------------------------- a shared channel
\* Two Clients run sendReceive over one channel (one Conn, or one multicast
\* group).  Client i stamps its packets with inst[i].xid; a server answers a
\* packet on the wire with an Advertise or a Reply of the packet's
\* TransactionID, and every datagram in flight can be read by either Client.
SharedTypes == {MessageTypeSolicit, MessageTypeRequest, MessageTypeRelease}
AnswerTypes == {MessageTypeAdvertise, MessageTypeReply}

\* lines 169-196: Client i calls sendReceive(p, MessageTypeNone) for a packet of type t
SharedSend(i, t, wok) ==
    /\ inst[i].pc = "idle"
    /\ LET p == Msg(t, inst[i].xid, TRUE, <<>>, <<>>) IN
       inst' = [inst EXCEPT ![i] =
                  [pc |-> IF wok THEN "recv" ELSE "ret",
                   xid |-> inst[i].xid,
                   packet |-> p,
                   expectedType |-> InferExpectedType(t, MessageTypeNone),
                   ret |-> [msg |-> NilMsg, err |-> IF wok THEN NoErr ELSE ErrWrite, to |-> 0],
                   skipped |-> FALSE]]
    /\ UNCHANGED <<solo, chan>>

\* a server answers the packet Client j has on the wire with a message of type t
ServerReply(j, t) ==
    /\ inst[j].pc = "recv"
    /\ chan' = chan \cup {[decodable |-> TRUE,
                           msg |-> Msg(t, inst[j].packet.TransactionID, TRUE, <<>>, <<>>),
                           to |-> j]}
    /\ UNCHANGED <<solo, inst>>

\* lines 197-221: ReadFrom of Client i delivers datagram d of the channel.
\* consume: the datagram is taken off the channel (one Conn); otherwise the
\* other Client can read it too (multicast).
SharedRead(i, d, consume) ==
    /\ inst[i].pc = "recv"
    /\ d \in chan
    /\ LET b == LoopBody(d, inst[i].packet, inst[i].expectedType) IN
       inst' = [inst EXCEPT ![i] =
                  IF b.brk
                  THEN [@ EXCEPT !.pc = "ret",
                                 !.ret = [msg |-> b.adv, err |-> NoErr, to |-> d.to]]
                  ELSE [@ EXCEPT !.skipped = @ \/ d.to # i]]
    /\ chan' = IF consume THEN chan \ {d} ELSE chan
    /\ UNCHANGED solo

\* lines 199-202: ReadFrom of Client i fails
SharedReadError(i, e) ==
    /\ inst[i].pc = "recv"
    /\ inst' = [inst EXCEPT ![i].pc = "ret",
                            ![i].ret = [msg |-> NilMsg, err |-> e, to |-> 0]]
    /\ UNCHANGED <<solo, chan>>

\* sendReceive of Client i has returned to its caller
SharedReturn(i) ==
    /\ inst[i].pc = "ret"
    /\ inst' = [inst EXCEPT ![i] = IdleInstance(inst[i].xid)]
    /\ UNCHANGED <<solo, chan>>

\* the two Clients with TransactionIDs of their own, equal or not
InitShared ==
    /\ InitClient
    /\ ids0 = <<>>
    /\ inst \in [Instances -> {IdleInstance(x) : x \in TIDs}]
    /\ chan = {}

NextShared ==
    \/ \E i \in Instances, t \in SharedTypes, wok \in BOOLEAN : SharedSend(i, t, wok)
    \/ \E j \in Instances, t \in AnswerTypes : ServerReply(j, t)
    \/ \E i \in Instances, d \in chan, consume \in BOOLEAN : SharedRead(i, d, consume)
    \/ \E i \in Instances, e \in {ErrTimeout, ErrReadIO} : SharedReadError(i, e)
    \/ \E i \in Instances : SharedReturn(i)

SpecShared == InitShared /\ [][NextShared]_vars

\* ------------------------------------------------------------- properties
\* the headers in the bag of skipped datagrams
Skipped == BagToSet(discarded)

\* header h is of the transaction of the packet being exchanged
SameXID(h) == h.decodable /\ h.TransactionID = packet.TransactionID

\* message m answers packet p under expected type t
Answers(m, p, t) ==
    /\ m # NilMsg
    /\ m.TransactionID = p.TransactionID
    /\ t # MessageTypeNone => m.MessageType = t

\* sendReceive has returned a message
Returned == pc = "ret" /\ ret.msg # NilMsg

\* C1: a message returned by sendReceive carries the TransactionID of the
\* packet that was sent, whatever was read before it; Release hands the same
\* pair to its caller.
C1_ReturnedTransactionID ==
    /\ Returned => ret.msg.TransactionID = packet.TransactionID
    /\ out.reply # NilMsg => out.reply.TransactionID = out.release.TransactionID

\* C1 witness: a message is returned after garbage and a message of a foreign
\* transaction were read
C1_Witness ==
    /\ Returned
    /\ \E h \in Skipped : ~h.decodable
    /\ \E h \in Skipped : h.decodable /\ h.TransactionID # packet.TransactionID

\* C2: with an expected type, a message of the transaction but of another
\* type is skipped, and the message returned is of the expected type.
C2_WrongTypeSkipped ==
    (Returned /\ expectedType # MessageTypeNone) =>
        /\ ret.msg.MessageType = expectedType
        /\ \A h \in Skipped : SameXID(h) => h.MessageType # expectedType

\* C2 witness: a message of the transaction and of the wrong type was read
\* first, then the message of the expected type was returned
C2_Witness ==
    /\ Returned
    /\ expectedType = MessageTypeReply
    /\ ret.msg.MessageType = MessageTypeReply
    /\ \E h \in Skipped : SameXID(h) /\ h.MessageType = MessageTypeAdvertise

\* C3: noise never fails an exchange.  An exchange fails only with the error
\* of the write or of ReadFrom; when it returns without error it returns a
\* message answering the packet; and while the deadline has not passed, every
\* datagram answering the packet ends the exchange with that message, whatever
\* was skipped before.
C3_NoiseNeverFails ==
    /\ pc = "ret" =>
          IF ret.err = NoErr THEN Answers(ret.msg, packet, expectedType)
          ELSE ret.msg = NilMsg /\ ret.err \in {ErrWrite, ErrTimeout, ErrReadIO}
    /\ (pc = "recv" /\ now < readDeadline) =>
          \A d \in Datagrams :
             (d.decodable /\ Answers(d.msg, packet, expectedType)) =>
                ENABLED (ReadDatagram(d) /\ pc' = "ret"
                         /\ ret' = [msg |-> d.msg, err |-> NoErr])

\* C3 witness: an exchange succeeds after as much noise as the bound allows,
\* undecodable and foreign
C3_Witness ==
    /\ pc = "ret"
    /\ ret.err = NoErr
    /\ BagCardinality(discarded) = MaxDiscard
    /\ \E h \in Skipped : ~h.decodable
    /\ \A h \in Skipped : ~SameXID(h)

\* C4: once the read deadline has passed without a message answering the
\* packet, the next ReadFrom ends the exchange with its error and without a
\* message; an exchange that ended with the timeout returned no message and
\* skipped only datagrams that did not answer the packet.
C4_TimeoutWithoutMatch ==
    [][ /\ (pc = "recv" /\ now >= readDeadline /\ reads' # reads) =>
              /\ pc' = "ret"
              /\ ret' = [msg |-> NilMsg, err |-> ErrTimeout] \/
                 ret' = [msg |-> NilMsg, err |-> ErrReadIO]
        /\ (pc' = "ret" /\ ret'.err = ErrTimeout) =>
              /\ ret'.msg = NilMsg
              /\ now' >= readDeadline'
              /\ \A h \in BagToSet(discarded') :
                    ~(SameXID(h) /\ (expectedType' = MessageTypeNone
                                     \/ h.MessageType = expectedType'))
      ]_vars

\* C4 witness: an exchange timed out after skipping as many datagrams as the
\* bound allows
C4_Witness ==
    /\ pc = "ret"
    /\ ret.err = ErrTimeout
    /\ BagCardinality(discarded) = MaxDiscard

\* C5: ObtainOrRenew leaves c.cfg as it was when the call began, until it
\* succeeds: while the call runs, and after it has failed in the Solicit or in
\* the Request step, Config() is what it was before the call.
C5_FailedObtainKeepsConfig ==
    (call = "ObtainOrRenew" /\ (pc # "idle" \/ c.err # NoErr)) => c.cfg = cfg0

\* C5 witness: an ObtainOrRenew that failed in its Request step while a
\* Config was held
C5_Witness ==
    /\ call = "ObtainOrRenew"
    /\ pc = "idle"
    /\ op = "request"
    /\ c.err = ErrTimeout
    /\ cfg0 # ZeroConfig
    /\ c.cfg = cfg0

\* C6: Release with no Advertise retained returns the error of the missing
\* Advertise and no messages, and writes and reads nothing.
C6_ReleaseWithoutAdvertise ==
    (call = "Release" /\ c.advertise = NilMsg) =>
        /\ pc = "idle"
        /\ out.err = ErrNilAdvertise
        /\ out.release = NilMsg
        /\ out.reply = NilMsg
        /\ wire = <<>>
        /\ reads = 0

\* C6 witness: Release was called after an ObtainOrRenew whose Solicit timed
\* out, so that no Advertise is retained
C6_Witness ==
    /\ call = "Release"
    /\ c.advertise = NilMsg
    /\ c.err = ErrTimeout
    /\ out.err = ErrNilAdvertise

\* C7: with a deterministic sequence of two TransactionIDs, the first exchange
\* is a Solicit carrying the first, the second exchange carries the second,
\* and every later exchange carries an ID that is not from the sequence, which
\* is empty by then.
C7_TwoDeterministicIDs ==
    (Len(ids0) = 2 /\ pc # "idle") =>
        /\ xchg = 1 => /\ packet.MessageType = MessageTypeSolicit
                       /\ fromQueue
                       /\ packet.TransactionID = ids0[1]
        /\ xchg = 2 => /\ fromQueue
                       /\ packet.TransactionID = ids0[2]
        /\ xchg >= 3 => /\ ~fromQueue
                        /\ c.transactionIDs = <<>>

\* C7 witness: after Solicit and Request took the two IDs, the Release of the
\* third exchange is on the wire with a generated ID
C7_Witness ==
    /\ Len(ids0) = 2
    /\ ids0[1] # ids0[2]
    /\ used = ids0
    /\ xchg = 3
    /\ pc = "recv"
    /\ packet.MessageType = MessageTypeRelease
    /\ wire = <<MessageTypeRelease>>
    /\ c.cfg # ZeroConfig
    /\ ~fromQueue

\* C8: the TransactionIDs taken from the queue are, in order, the front
\* entries of the sequence supplied, each taken once; what remains queued is
\* the rest of that sequence; a packet stamped from the queue carries the
\* entry taken last.
C8_QueueEntriesUsedOnce ==
    /\ Len(used) <= Len(ids0)
    /\ used = SubSeq(ids0, 1, Len(used))
    /\ c.transactionIDs = SubSeq(ids0, Len(used) + 1, Len(ids0))
    /\ (pc # "idle" /\ fromQueue) => packet.TransactionID = ids0[Len(used)]

\* C8 witness: the three entries of a sequence were taken, two by an
\* ObtainOrRenew that failed in its Request step and the last by a Release
C8_Witness ==
    /\ Len(ids0) = 3
    /\ ids0[1] # ids0[2]
    /\ ids0[2] # ids0[3]
    /\ used = ids0
    /\ c.err # NoErr
    /\ pc = "ret"
    /\ op = "release"
    /\ fromQueue

\* the prefixes of a list of IA_PD options, in the order of the options
RECURSIVE AllPrefixes(_)
AllPrefixes(iapds) ==
    IF iapds = <<>> THEN <<>> ELSE Head(iapds).prefixes \o AllPrefixes(Tail(iapds))

\* C9: after a successful ObtainOrRenew, RenewAfter is the least of the
\* deadlines clock reading + T1 over the IA_PD options of the Reply; when the
\* clock stood at one value during the extraction, that is this value plus the
\* least T1; a Reply without IA_PD gives the zero time and no prefixes.
C9_RenewAfterIsMinimum ==
    extracted # NilMsg =>
        LET n == Len(extracted.iapd)
            t1s == {nows[i] + extracted.iapd[i].T1 : i \in 1..n}
            T1s == {extracted.iapd[i].T1 : i \in 1..n}
        IN /\ Len(nows) = n
           /\ n = 0 => c.cfg.RenewAfter = ZeroTime /\ c.cfg.Prefixes = <<>>
           /\ n > 0 => /\ c.cfg.RenewAfter \in t1s
                       /\ \A t \in t1s : c.cfg.RenewAfter <= t
           /\ (n > 0 /\ \A i \in 1..n : nows[i] = nows[1]) =>
                 /\ c.cfg.RenewAfter - nows[1] \in T1s
                 /\ \A t \in T1s : c.cfg.RenewAfter - nows[1] <= t

\* C9 witness: a Reply with T1 of 2 and then 1 was extracted while the clock
\* stood at 1: RenewAfter is 1 + 1
C9_Witness ==
    /\ extracted # NilMsg
    /\ Len(extracted.iapd) = 2
    /\ extracted.iapd[1].T1 = 2
    /\ extracted.iapd[2].T1 = 1
    /\ nows = <<1, 1>>
    /\ c.cfg.RenewAfter = 2

\* C10: after a successful ObtainOrRenew, Prefixes is the prefixes of the
\* Reply's IA_PD options in their order and DNS the addresses of its DNS
\* option in their order, duplicates kept, whatever Config was held before.
C10_ConfigReplaced ==
    extracted # NilMsg =>
        /\ pc = "idle"
        /\ c.err = NoErr
        /\ c.cfg.Prefixes = AllPrefixes(extracted.iapd)
        /\ c.cfg.DNS = extracted.dns
        /\ Len(extracted.iapd) = 0 => c.cfg.RenewAfter = ZeroTime

\* C10 witness: a Config with prefix p2 and name servers d2, d1 was held; the
\* Reply delegated p2, p1 and again p1 and named d1 twice
C10_Witness ==
    /\ extracted # NilMsg
    /\ cfg0.Prefixes = <<"p2">>
    /\ cfg0.DNS = <<"d2", "d1">>
    /\ c.cfg.Prefixes = <<"p2", "p1", "p1">>
    /\ c.cfg.DNS = <<"d1", "d1">>

\* C11: ObtainOrRenew clears c.err on entry, so that it is nil while the call
\* runs; it returns true; after it returned c.err is nil exactly when the
\* Reply was extracted, and a call that returns after a failed exchange leaves
\* the error of that exchange in c.err, a call that returns after the Solicit
\* exchange succeeded the error of building the Request.
C11_ErrAfterObtain ==
    [][ /\ (call' = "ObtainOrRenew" /\ pc' # "idle") => c'.err = NoErr
        /\ (call' = "ObtainOrRenew" /\ pc' = "idle") =>
              /\ out' = ObtainOut
              /\ (c'.err = NoErr) <=> (extracted' # NilMsg)
        /\ (call = "ObtainOrRenew" /\ pc = "ret" /\ pc' = "idle") =>
              c'.err = IF ret.err # NoErr THEN ret.err
                       ELSE IF op = "request" THEN NoErr
                       ELSE NewRequestFromAdvertise(ret.msg, 1).err
      ]_vars

\* C11 witness: an ObtainOrRenew has returned with a nil error after the
\* second and third exchange ever made: the first exchange was the Solicit of
\* an earlier call, which failed and latched its error
C11_Witness ==
    /\ call = "ObtainOrRenew"
    /\ pc = "idle"
    /\ xchg = 3
    /\ wire = <<MessageTypeSolicit, MessageTypeRequest>>
    /\ extracted # NilMsg
    /\ c.err = NoErr

\* C12 as stated: after a Release that failed, c.err is the failure
C12_ReleaseErrLatched ==
    (call = "Release" /\ pc = "idle" /\ out.err # NoErr) => c.err = out.err

\* C12: a Release hands its failure to its caller as its error result and
\* leaves c.err as it was; c.err is what the last ObtainOrRenew left there,
\* the failure of that call if it failed.
C12_ReleaseReturnsErr ==
    [][ /\ call' = "Release" => c'.err = c.err
        /\ (call = "Release" /\ pc = "ret" /\ pc' = "idle") => out'.err = ret.err
        /\ (call = "ObtainOrRenew" /\ pc = "ret" /\ ret.err # NoErr) => c'.err = ret.err
      ]_vars

\* C12 witness: a Release timed out after an ObtainOrRenew that succeeded:
\* the timeout is returned and c.err is still nil
C12_Witness ==
    /\ call = "Release"
    /\ pc = "idle"
    /\ out.err = ErrTimeout
    /\ out.release # NilMsg
    /\ c.err = NoErr

\* C13: called with expected type None, sendReceive expects Advertise for a
\* Solicit, Reply for a Request, RelayReply for a RelayForward and
\* LeaseQueryReply for a LeaseQuery, and returns only a message of that type;
\* for every other packet (Release) it expects None, skips no decoded message
\* of the transaction and returns any such message whatever its type.
C13_ExpectedTypeInferred ==
    (call = "sendReceive(None)" /\ pc # "idle" /\ packet # NilMsg) =>
        /\ expectedType =
              CASE packet.MessageType = MessageTypeSolicit -> MessageTypeAdvertise
                [] packet.MessageType = MessageTypeRequest -> MessageTypeReply
                [] packet.MessageType = MessageTypeRelayForward -> MessageTypeRelayReply
                [] packet.MessageType = MessageTypeLeaseQuery -> MessageTypeLeaseQueryReply
                [] OTHER -> MessageTypeNone
        /\ Returned =>
              /\ ret.msg.TransactionID = packet.TransactionID
              /\ expectedType # MessageTypeNone => ret.msg.MessageType = expectedType
        /\ \A h \in Skipped :
              SameXID(h) => (expectedType # MessageTypeNone /\ h.MessageType # expectedType)
        /\ (pc = "recv" /\ now < readDeadline /\ expectedType = MessageTypeNone) =>
              \A d \in ExchangeDatagrams :
                 (d.decodable /\ d.msg.TransactionID = packet.TransactionID) =>
                    ENABLED (ReadDatagram(d) /\ pc' = "ret"
                             /\ ret' = [msg |-> d.msg, err |-> NoErr])

\* C13 witness: the exchange of a Release has returned an Advertise of its
\* transaction, after a message of another transaction was skipped
C13_Witness ==
    /\ call = "sendReceive(None)"
    /\ pc = "ret"
    /\ packet.MessageType = MessageTypeRelease
    /\ expectedType = MessageTypeNone
    /\ ret.msg.MessageType = MessageTypeAdvertise
    /\ \E h \in Skipped : h.decodable /\ ~SameXID(h)

\* C18: the read deadline changes only when a packet has been written, to
\* ReadTimeout from then, and not while the receive loop runs; and with a
\* clock that runs and a ReadFrom that fails once the deadline has passed,
\* every exchange that entered the receive loop returns: a message, or the
\* error of ReadFrom.
C18_SingleDeadlineTerminates ==
    /\ [][ /\ pc = "recv" => readDeadline' = readDeadline
           /\ readDeadline' # readDeadline =>
                 (pc' = "recv" /\ readDeadline' = now + ReadTimeout) ]_vars
    /\ (pc = "recv") ~>
          (pc = "ret" /\ (ret.msg # NilMsg \/ ret.err \in {ErrTimeout, ErrReadIO}))

\* C18 witness: an exchange has ended with the timeout, past its deadline,
\* after the receive loop skipped as many datagrams as the bound allows
C18_Witness ==
    /\ op = "exchange"
    /\ pc = "ret"
    /\ ret.err = ErrTimeout
    /\ now >= readDeadline
    /\ BagCardinality(discarded) = MaxDiscard

\* C14: the Request exchange of an ObtainOrRenew begins only from the return
\* of the Solicit exchange of the same call with an Advertise that carries the
\* Solicit's TransactionID; a Solicit exchange that failed ends the call with
\* the error latched and nothing more written; and a call that ended in its
\* Solicit step has written no Request.
C14_RequestAfterAdvertise ==
    [][ /\ (op' = "request" /\ op # "request") =>
              /\ call = "ObtainOrRenew" /\ call' = call
              /\ op = "solicit" /\ pc = "ret"
              /\ packet.MessageType = MessageTypeSolicit
              /\ ret.err = NoErr
              /\ ret.msg.MessageType = MessageTypeAdvertise
              /\ ret.msg.TransactionID = packet.TransactionID
              /\ packet'.MessageType = MessageTypeRequest
        /\ (op = "solicit" /\ pc = "ret" /\ ret.err # NoErr) =>
              /\ pc' = "idle" /\ op' = "solicit"
              /\ c'.err = ret.err
              /\ wire' = wire
        /\ (call' = "ObtainOrRenew" /\ op' = "solicit") =>
              \A i \in 1..Len(wire') : wire'[i] # MessageTypeRequest
      ]_vars

\* C14 witness: an ObtainOrRenew ended after its Solicit timed out: the
\* Solicit is all it wrote
C14_Witness ==
    /\ call = "ObtainOrRenew"
    /\ pc = "idle"
    /\ op = "solicit"
    /\ c.err = ErrTimeout
    /\ wire = <<MessageTypeSolicit>>

\* C15: c.advertise changes in one step only, the return of a successful
\* Solicit exchange into ObtainOrRenew, where it becomes the message returned,
\* an Advertise; the Request step, an ObtainOrRenew whose Solicit fails and
\* Release leave it as it is, and a Release exchange begins only from an
\* Advertise retained.
C15_AdvertiseRetained ==
    [][ /\ c'.advertise =
              IF call = "ObtainOrRenew" /\ op = "solicit" /\ pc = "ret" /\ ret.err = NoErr
              THEN ret.msg ELSE c.advertise
        /\ c'.advertise # NilMsg => c'.advertise.MessageType = MessageTypeAdvertise
        /\ (call' = "Release" /\ pc' # "idle") =>
              /\ c.advertise # NilMsg
              /\ packet'.MessageType = MessageTypeRelease
      ]_vars

\* C15 witness: the Release exchange is running from the Advertise retained
\* by an ObtainOrRenew whose Request step failed
C15_Witness ==
    /\ call = "Release"
    /\ pc = "recv"
    /\ c.err = ErrReadIO
    /\ c.cfg = ZeroConfig
    /\ xchg = 3
    /\ c.advertise # NilMsg
    /\ packet.MessageType = MessageTypeRelease

\* C16: an exchange that ended with the error of the write returned no
\* message, read nothing and skipped nothing, and its packet is not among the
\* packets written; the receive loop runs only for a packet that was written;
\* the call that made the exchange ends without another write or read.
C16_WriteErrorReturned ==
    /\ (pc = "ret" /\ ret.err = ErrWrite) =>
          /\ ret.msg = NilMsg
          /\ reads = 0
          /\ discarded = EmptyBag
          /\ Len(wire) = IF op = "request" THEN 1 ELSE 0
    /\ pc = "recv" =>
          /\ wire # <<>>
          /\ wire[Len(wire)] = packet.MessageType
    /\ (pc # "idle" /\ reads > 0) => ret.err # ErrWrite
    /\ (call = "ObtainOrRenew" /\ pc = "idle" /\ c.err = ErrWrite) =>
          /\ reads = 0
          /\ wire = IF op = "request" THEN <<MessageTypeSolicit>> ELSE <<>>
    /\ (call = "Release" /\ pc = "idle" /\ out.err = ErrWrite) =>
          /\ reads = 0
          /\ wire = <<>>
          /\ out.reply = NilMsg

\* C16 witness: the write of the Request failed: the exchange has returned
\* the error without a read
C16_Witness ==
    /\ pc = "ret"
    /\ op = "request"
    /\ ret.err = ErrWrite
    /\ reads = 0
    /\ wire = <<MessageTypeSolicit>>

\* C17: an ObtainOrRenew writes nothing, a Solicit, or a Solicit and then a
\* Request; a Release writes nothing or one Release; an exchange in its
\* receive loop has written its packet once, whatever it has read.
C17_NoRetry ==
    /\ call = "ObtainOrRenew" =>
          wire \in {<<>>, <<MessageTypeSolicit>>, <<MessageTypeSolicit, MessageTypeRequest>>}
    /\ call = "Release" => wire \in {<<>>, <<MessageTypeRelease>>}
    /\ (pc = "recv" /\ op \in {"solicit", "request", "release"}) =>
          Len(wire) = IF op = "request" THEN 2 ELSE 1
    /\ (pc = "ret" /\ op \in {"solicit", "request", "release"}) =>
          Len(wire) = (IF op = "request" THEN 1 ELSE 0)
                      + (IF ret.err = ErrWrite THEN 0 ELSE 1)

\* C17 witness: the Request exchange timed out after skipping as many
\* datagrams as the bound allows, one of them of its transaction and of the
\* wrong type: two packets were written
C17_Witness ==
    /\ pc = "ret"
    /\ op = "request"
    /\ ret.err = ErrTimeout
    /\ BagCardinality(discarded) = MaxDiscard
    /\ \E h \in Skipped : SameXID(h)
    /\ wire = <<MessageTypeSolicit, MessageTypeRequest>>

\* C20: the queue is the supplied sequence without as many front entries as
\* exchanges were attempted, or empty when there were more attempts than
\* entries: an attempt takes exactly the front entry, also when it fails on send
\* or times out, and a call that attempts no exchange takes nothing.
C20_OneEntryPerExchange ==
    LET n == IF xchg < Len(ids0) THEN xchg ELSE Len(ids0)
    IN /\ xchg < MaxXchg => c.transactionIDs = SubSeq(ids0, n + 1, Len(ids0))
       /\ (xchg = MaxXchg /\ Len(ids0) <= MaxXchg) => c.transactionIDs = <<>>
       /\ Len(c.transactionIDs) <= Len(ids0)

\* C20 witness: two Solicit exchanges were attempted and failed, the second
\* by a timeout: the third entry of the sequence is what is left
C20_Witness ==
    /\ Len(ids0) = 3
    /\ xchg = 2
    /\ pc = "ret"
    /\ op = "solicit"
    /\ ret.err = ErrTimeout
    /\ c.advertise = NilMsg
    /\ c.transactionIDs = <<ids0[3]>>

\* C19: on a shared channel a message returned to a Client carries the
\* TransactionID of its packet; when the two Clients use different
\* TransactionIDs it is a message that was sent to this Client, never one
\* sent to the other; and nothing but TransactionID and type decides: every
\* datagram in flight with the TransactionID of the packet and a type
\* the exchange takes is returned when read, whoever it was sent to.
C19_SharedChannel ==
    \A i \in Instances :
        /\ (inst[i].pc = "ret" /\ inst[i].ret.msg # NilMsg) =>
              /\ inst[i].ret.msg.TransactionID = inst[i].packet.TransactionID
              /\ inst[1].xid # inst[2].xid => inst[i].ret.to = i
        /\ inst[i].pc = "recv" =>
              \A d \in chan :
                 Answers(d.msg, inst[i].packet, inst[i].expectedType) =>
                    ENABLED (SharedRead(i, d, TRUE) /\ inst'[i].pc = "ret"
                             /\ inst'[i].ret.msg = d.msg)

\* C19 witness: with different TransactionIDs both Clients have their own
\* Reply, and each has skipped a message sent to the other
C19_Witness ==
    /\ inst[1].xid # inst[2].xid
    /\ \A i \in Instances :
          /\ inst[i].pc = "ret"
          /\ inst[i].packet.MessageType = MessageTypeRequest
          /\ inst[i].ret.msg.MessageType = MessageTypeReply
          /\ inst[i].ret.to = i
          /\ inst[i].skipped

====
